---- MODULE Spec2Model ----
(***************************************************************************)
(* A model of the client core of Smart-agri-frontend:                      *)
(*   - the connection manager of ArduinoService (connect, the per-socket   *)
(*     'connect' / 'connect_error' / 'disconnect' handlers, the connect    *)
(*     watchdog, handleConnectionError with its backoff timers,            *)
(*     disconnect, isConnected);                                           *)
(*   - the command dispatcher (sendCommand, the 'commandIssued' and        *)
(*     'commandTimeout' handlers) with the backend's POST /send-command;   *)
(*   - the event dispatcher (on, off, emit);                               *)
(*   - the normalizer (safeNumber, validateSensorData), the 'init' handler *)
(*     and emitCurrentPlantData;                                           *)
(*   - the useArduinoData hook: its alert checks, alert buffer and alert   *)
(*     ids, calculateParameterScore and calculatePlantHealth.              *)
(*                                                                         *)
(* The socket.io transport is the environment.  A socket made by io() is   *)
(* "opening" until the transport reports 'connect'; with reconnection      *)
(* enabled its manager keeps retrying after a failed attempt, so one       *)
(* socket reports 'connect_error' up to 1 + reconnectionAttempts times and *)
(* then gives up.  ArduinoService.connect() never closes the socket it     *)
(* replaces, so every socket it ever made keeps delivering events to the   *)
(* handlers registered on it.                                              *)
(***************************************************************************)
EXTENDS Integers, Sequences, FiniteSets, TLC

\* ------------------------------------------------------------------ bounds
MaxSockets == 3        \* transport sessions io() creates in one behaviour
MaxTimers == 3         \* backoff timers pending at the same time
AttemptCap == 6        \* failure handling runs while reconnectAttempts < AttemptCap
MaxErrorEvents == 3    \* 'error' notifications counted since the last reset
CmdMaxSockets == 2     \* transport sessions in the command dispatcher's specification
MaxCommands == 1       \* send-command requests in one behaviour
MaxNotifications == 2  \* outcome notifications counted per command
NumHandlers == 2       \* distinct callbacks a subscriber can pass to on() / off()
MaxListeners == 2      \* callbacks subscribed to one event between emissions
MaxOffset == 5         \* how far outside its optimal range a scored value lies
MaxInserted == 12      \* alerts inserted into the alert buffer in one behaviour
MaxNow == 1            \* milliseconds the clock advances in one behaviour

\* ------------------------------------------------------- program constants
maxReconnectAttempts == 5
retryDelay == 5000
MaxBackoffDelay == 20000
reconnectionAttempts == 3
AlertBufferSize == 10
LowNutrientAverage == 30
LowReservoirLevel == 20

VARIABLES
    sockets,            \* every socket io() has made: [st, errs], in creation order
    socket,             \* this.socket: an index of sockets, 0 for null
    connected,          \* this.connected
    reconnectAttempts,  \* this.reconnectAttempts
    connectionTimeout,  \* this.connectionTimeout is an armed watchdog
    timers,             \* pending setTimeout(() => this.connect(), backoffDelay)
    lastDelay,          \* delay handed to setTimeout by the last failure handling, 0: none
    errorEvents,        \* 'error' notifications emitted since reconnectAttempts was last 0
    raised,             \* what the last step of the connection manager emitted: the
                        \* 'connection' notification, the requestInitialData request
                        \* and <<the 'error' notification>>, each if any
    ret,                \* what the last step's connect() / sendCommand() returned, else "none"
    lastOp,             \* the operation that made the last step
    plantType,          \* this.plantType
    wateringActive,     \* this.wateringActive
    lightActive,        \* this.lightActive
    cmds,               \* every send-command request made, in order (see NewCommand)
    wire,               \* events the backend has emitted to a client socket, not yet delivered
    listeners,          \* this.listeners: the callbacks subscribed to each event, in order
    emission,           \* the last emit(): its event, the callbacks it found, what each
                        \* callback does when invoked, and the callbacks it invoked
    data,               \* the raw device payload handed to validateSensorData
    normalized,         \* <<the SensorData validateSensorData returned>>, <<>> before the call
    parameter,          \* the arguments of calculateParameterScore: [value, optimal]
    parameterScore,     \* <<the score it returned>> as a fraction num / den, <<>> before
    profile,            \* the plant argument of the hook: <<profile>>, <<>> when undefined
    plantHealth,        \* <<what calculatePlantHealth returned>>: [status, score], <<>> before
    currentSensorData,  \* this.currentSensorData: per device <<its stored reading>> or <<>>
    currentReservoirLevels, \* this.currentReservoirLevels: its water and fertilizer percent
    sensorData,         \* the hook's sensorData state: <<reading>>, <<>> for null
    alerts,             \* the hook's alerts state, an alert being [batch, idx]: the idx-th
                        \* alert of the batch-th insertion
    inserted,           \* the number of alerts each insertion so far has put in
    processed,          \* <<the reading handleData processed in the last step>>, else <<>>
    newAlerts,          \* the alerts the last step created: [type, message], in order
    now,                \* Date.now(), in milliseconds since the service was made
    alertIds            \* the id of each alert of the alerts state, in its order

connVars == <<sockets, socket, connected, reconnectAttempts, connectionTimeout,
              timers, lastDelay, errorEvents, raised>>

cmdVars == <<plantType, wateringActive, lightActive, cmds, wire>>

emitVars == <<listeners, emission>>

normVars == <<data, normalized>>

scoreVars == <<parameter, parameterScore, profile, plantHealth>>

hookVars == <<currentSensorData, currentReservoirLevels, sensorData, alerts, inserted,
              processed, newAlerts, now, alertIds>>

dataVars == <<normVars, scoreVars, hookVars>>

vars == <<connVars, ret, lastOp, cmdVars, emitVars, dataVars>>

\* ----------------------------------------------------------------- helpers
RECURSIVE Pow(_, _)
Pow(b, n) == IF n = 0 THEN 1 ELSE b * Pow(b, n - 1)

\* Math.min(this.retryDelay * Math.pow(1.5, attempts - 1), 20000), computed
\* exactly: 1.5^(k-1) = 3^(k-1) / 2^(k-1).
BackoffDelayDoubling(attempts) ==
    IF retryDelay * Pow(2, attempts - 1) > MaxBackoffDelay
    THEN MaxBackoffDelay
    ELSE retryDelay * Pow(2, attempts - 1)

BackoffDelay(attempts) ==
    IF retryDelay * Pow(3, attempts - 1) > MaxBackoffDelay * Pow(2, attempts - 1)
    THEN MaxBackoffDelay
    ELSE (retryDelay * Pow(3, attempts - 1)) \div Pow(2, attempts - 1)

\* if (this.reconnectAttempts >= this.maxReconnectAttempts) in connect()
BudgetExhaustedOffByOne(attempts) == attempts > maxReconnectAttempts

BudgetExhausted(attempts) == attempts >= maxReconnectAttempts

\* this.connected && this.socket?.connected === true
IsConnected ==
    connected /\ socket # 0 /\ sockets[socket].st = "open"

SockIds == 1..Len(sockets)

SetSock(s, st, errs) == [sockets EXCEPT ![s] = [st |-> st, errs |-> errs]]

\* socket.disconnect() called by the client on socket s: the socket closes and
\* delivers no further event.
ClientClosed(socks, s) ==
    IF s = 0 THEN socks ELSE [socks EXCEPT ![s].st = "closed"]

\* this.emit('connection', {connected}) and this.socket?.emit('requestInitialData',
\* ...) of one step; "none": the step made no such call
Raised(connection, requestInitialData) ==
    [connection |-> connection, requestInitialData |-> requestInitialData,
     error |-> <<>>]

\* private backendUrl = import.meta.env.VITE_BACKEND_URL || 'https://...'
backendUrl == "VITE_BACKEND_URL"

\* this.emit('error', {message, details: `Backend URL: ${this.backendUrl}...`})
\* in a step that emitted 'connection' as given
RaisedError(connection, url) ==
    [connection |-> connection, requestInitialData |-> "none",
     error |-> <<[details |-> url]>>]

\* this.socket?.emit('requestInitialData', ...): nothing with this.socket null,
\* sent on an open socket, and kept in the send buffer of a socket that is not
\* connected until that socket connects
RequestInitialData(socks, current) ==
    IF current = 0 THEN "none"
    ELSE IF socks[current].st = "open" THEN "sent" ELSE "buffered"

\* handleConnectionError without the test of the budget
HandleConnectionErrorAlwaysRetries ==
    /\ reconnectAttempts < AttemptCap
    /\ connected' = FALSE
    /\ raised' = Raised("false", "none")
    /\ reconnectAttempts' = reconnectAttempts + 1
    /\ timers < MaxTimers
    /\ timers' = timers + 1
    /\ lastDelay' = BackoffDelay(reconnectAttempts + 1)
    /\ errorEvents' = errorEvents

\* handleConnectionError
HandleConnectionError ==
    /\ reconnectAttempts < AttemptCap
    /\ connected' = FALSE
    /\ raised' = IF reconnectAttempts + 1 < maxReconnectAttempts
                 THEN Raised("false", "none")
                 ELSE RaisedError("false", backendUrl)
    /\ reconnectAttempts' = reconnectAttempts + 1
    /\ IF reconnectAttempts + 1 < maxReconnectAttempts
       THEN /\ timers < MaxTimers
            /\ timers' = timers + 1
            /\ lastDelay' = BackoffDelay(reconnectAttempts + 1)
            /\ errorEvents' = errorEvents
       ELSE /\ errorEvents < MaxErrorEvents
            /\ timers' = timers
            /\ lastDelay' = 0
            /\ errorEvents' = errorEvents + 1

\* The body of connect(), run by a caller or by a backoff timer.
ConnectBody(maxSockets) ==
    /\ connectionTimeout' = (~BudgetExhausted(reconnectAttempts))
    /\ IF BudgetExhausted(reconnectAttempts)
       THEN /\ errorEvents < MaxErrorEvents
            /\ errorEvents' = errorEvents + 1
            /\ ret' = "false"
            /\ UNCHANGED <<sockets, socket>>
       ELSE /\ Len(sockets) < maxSockets
            /\ sockets' = Append(sockets, [st |-> "opening", errs |-> 0])
            /\ socket' = Len(sockets) + 1
            /\ ret' = "pending"
            /\ errorEvents' = errorEvents
    /\ raised' = IF BudgetExhausted(reconnectAttempts)
                 THEN RaisedError("none", backendUrl)
                 ELSE Raised("none", "none")
    /\ UNCHANGED <<connected, reconnectAttempts, lastDelay>>

\* --------------------------------------------------------- event dispatcher
EventNames == {"data", "error"}

Handlers == 1..NumHandlers

NoEmission == [event |-> "none", snapshot |-> <<>>, does |-> <<>>, invoked |-> <<>>]

\* What a callback does while emit() invokes it: nothing, off(event, h) or
\* on(event, h) for the event being emitted.
Behaviours ==
    {[op |-> "none", h |-> 0]}
        \cup {[op |-> o, h |-> h] : o \in {"off", "on"}, h \in Handlers}

\* callbacks.indexOf(callback), 1-based, 0 when absent
RECURSIVE IndexFrom(_, _, _)
IndexFrom(callbacks, callback, k) ==
    IF k > Len(callbacks) THEN 0
    ELSE IF callbacks[k] = callback THEN k
    ELSE IndexFrom(callbacks, callback, k + 1)

IndexOf(callbacks, callback) == IndexFrom(callbacks, callback, 1)

\* callbacks.splice(index, 1)
Splice(callbacks, index) ==
    [k \in 1..(Len(callbacks) - 1) |->
        IF k < index THEN callbacks[k] ELSE callbacks[k + 1]]

\* off(event, callback) on the array of the event
OffArray(callbacks, callback) ==
    IF IndexOf(callbacks, callback) # 0
    THEN Splice(callbacks, IndexOf(callbacks, callback))
    ELSE callbacks

\* on(event, callback) on the array of the event
OnArray(callbacks, callback) == Append(callbacks, callback)

\* The array after the invoked callback has done what it does.
AfterCall(callbacks, what) ==
    CASE what.op = "off" -> OffArray(callbacks, what.h)
      [] what.op = "on" -> OnArray(callbacks, what.h)
      [] OTHER -> callbacks

\* callbacks.forEach(callback => callback(data)): Array.prototype.forEach
\* visits the indices below the length the array had when it started, reads
\* each index from the live array, and skips an index the array no longer has.
RECURSIVE ForEach(_, _, _, _, _)
ForEach(k, len, callbacks, does, invoked) ==
    IF k > len THEN [callbacks |-> callbacks, invoked |-> invoked]
    ELSE IF k > Len(callbacks) THEN ForEach(k + 1, len, callbacks, does, invoked)
    ELSE ForEach(k + 1, len, AfterCall(callbacks, does[callbacks[k]]), does,
                 Append(invoked, callbacks[k]))

\* emit(event, data)
EmitRun(callbacks, does) == ForEach(1, Len(callbacks), callbacks, does, <<>>)

\* --------------------------------------------------------------- normalizer
\* A JavaScript value: its kind and, for a number or a numeric string, the
\* number.  "empty" is the string '', "text" a string Number() turns into NaN,
\* "numstr" a string Number() turns into n, "object" a non-null object.
JSValue(k, n) == [k |-> k, n |-> n]

JSUndefined == JSValue("undefined", 0)

JSNull == JSValue("null", 0)

JSNaN == JSValue("nan", 0)

JSNum(n) == JSValue("number", n)

SampleNumbers == {0, 30, 57}

\* The values a payload field takes; undefined is a field the payload lacks.
JSValues ==
    {JSUndefined, JSNull, JSNaN, JSValue("empty", 0), JSValue("text", 0),
     JSValue("inf", 0), JSValue("numstr", 42)}
        \cup {JSNum(n) : n \in SampleNumbers}

\* Number(value)
ToNumber(value) ==
    CASE value.k \in {"number", "inf"} -> value
      [] value.k = "numstr" -> JSNum(value.n)
      [] value.k \in {"empty", "null"} -> JSNum(0)
      [] OTHER -> JSNaN

\* value || other
Truthy(value) ==
    \/ value.k \in {"text", "numstr", "inf", "object"}
    \/ value.k = "number" /\ value.n # 0

OrElse(value, other) == IF Truthy(value) THEN value ELSE other

\* safeNumber without its isNaN test
SafeNumberUnchecked(value, defaultValue) ==
    IF value.k \in {"null", "undefined", "empty"}
    THEN JSNum(defaultValue)
    ELSE ToNumber(value)

\* safeNumber
SafeNumber(value, defaultValue) ==
    IF value.k \in {"null", "undefined", "empty"}
    THEN JSNum(defaultValue)
    ELSE IF ToNumber(value).k = "nan" THEN JSNum(defaultValue) ELSE ToNumber(value)

PayloadFields ==
    {"temperature", "humidity", "moisture_percent", "soil_moisture_percent",
     "moisture", "lux", "lightLevel", "ldr", "npk", "N", "P", "K", "nitrogen",
     "phosphorus", "potassium", "waterLevelPercent", "waterLevel",
     "fertilizer_level", "fertilizerLevel"}

\* A payload is a record of PayloadFields; N, P and K are the members of the
\* object under npk and are read only when npk is an object.
EmptyPayload == [f \in PayloadFields |-> JSUndefined]

\* data.npk.N and its like: a member of a value that is not an object is undefined
Member(object, value) == IF object.k = "object" THEN value ELSE JSUndefined

\* validateSensorData: the numeric fields and the device id of the SensorData
\* it returns (the timestamp is the payload's or the clock's)
ValidateSensorData(d, deviceId) ==
    [temperature |-> SafeNumber(d.temperature, 20),
     humidity |-> SafeNumber(d.humidity, 50),
     moisture |->
        IF d.moisture_percent # JSUndefined
        THEN SafeNumber(d.moisture_percent, 0)
        ELSE IF d.soil_moisture_percent # JSUndefined
             THEN SafeNumber(d.soil_moisture_percent, 0)
             ELSE SafeNumber(d.moisture, 0),
     sunlight |->
        IF d.lux # JSUndefined THEN SafeNumber(d.lux, 0)
        ELSE IF d.lightLevel # JSUndefined THEN SafeNumber(d.lightLevel, 0)
        ELSE IF d.ldr # JSUndefined THEN SafeNumber(d.ldr, 0)
        ELSE JSNum(0),
     nitrogen |->
        IF Truthy(d.npk) THEN SafeNumber(Member(d.npk, d.N), 0)
        ELSE SafeNumber(d.nitrogen, 0),
     phosphorus |->
        IF Truthy(d.npk) THEN SafeNumber(Member(d.npk, d.P), 0)
        ELSE SafeNumber(d.phosphorus, 0),
     potassium |->
        IF Truthy(d.npk) THEN SafeNumber(Member(d.npk, d.K), 0)
        ELSE SafeNumber(d.potassium, 0),
     waterLevel |-> SafeNumber(OrElse(d.waterLevelPercent, d.waterLevel), 0),
     fertilizerLevel |-> SafeNumber(OrElse(d.fertilizer_level, d.fertilizerLevel), 0),
     deviceId |-> deviceId]

\* The payloads normalization is checked on: the sources of one logical field
\* take every combination of JSValues, every other field is missing.
FieldGroups ==
    {{"temperature"}, {"humidity"},
     {"moisture_percent", "soil_moisture_percent", "moisture"},
     {"lux", "lightLevel", "ldr"},
     {"N", "nitrogen"}, {"P", "phosphorus"}, {"K", "potassium"},
     {"waterLevelPercent", "waterLevel"},
     {"fertilizer_level", "fertilizerLevel"}}

NpkValues == {JSUndefined, JSNull, JSValue("object", 0)}

NpkOf(g) == IF g \cap {"N", "P", "K"} # {} THEN NpkValues ELSE {JSUndefined}

Payloads ==
    UNION {{[f \in PayloadFields |->
                IF f \in g THEN vals[f] ELSE IF f = "npk" THEN npk ELSE JSUndefined] :
              vals \in [g -> JSValues], npk \in NpkOf(g)} : g \in FieldGroups}

\* ------------------------------------------------------------- plant health
Abs(x) == IF x < 0 THEN 0 - x ELSE x

Max(a, b) == IF a >= b THEN a ELSE b

\* calculateParameterScore, in exact arithmetic: the score is num / den.
\* deviation and tolerance are carried ten times over, which keeps
\* optimalMid = (min + max) / 2 and tolerance = optimalRange * 0.2 whole.
CalculateParameterScore(value, optimal) ==
    LET optimalRange == optimal.max - optimal.min
        deviation10 == 5 * Abs(2 * value - (optimal.min + optimal.max))
        tolerance10 == 2 * optimalRange
    IN  IF value >= optimal.min /\ value <= optimal.max
        THEN [num |-> 100, den |-> 1]
        ELSE IF deviation10 <= tolerance10
             THEN [num |-> Max(80 * tolerance10, 100 * tolerance10 - deviation10 * 20),
                   den |-> tolerance10]
             ELSE [num |-> Max(0, 80 * 10 * optimalRange
                                    - (deviation10 - tolerance10) * 60),
                   den |-> 10 * optimalRange]

\* The optimal ranges and values a score is computed for: min < max, and the
\* value from MaxOffset below min to MaxOffset above max.
OptimalRanges ==
    {[min |-> lo, max |-> lo + width] : lo \in {0, 10, 65}, width \in {5, 10, 20}}

Parameters ==
    {[value |-> v, optimal |-> o] :
       <<v, o>> \in {t \in (0 - MaxOffset .. 85 + MaxOffset) \X OptimalRanges :
                       /\ t[1] >= t[2].min - MaxOffset
                       /\ t[1] <= t[2].max + MaxOffset}}

\* ------------------------------------------------- readings and the hook
Devices == {"esp32_1", "esp32_2"}

\* getReservoirLevels()
GetReservoirLevels == currentReservoirLevels

\* The level1 profile of PlantContext, as far as the hook reads it.
plant ==
    [moisture |-> [min |-> 65, max |-> 85],
     sunlight |-> [min |-> 4500, max |-> 7500],
     temperature |-> [min |-> 15, max |-> 22],
     humidity |-> [min |-> 60, max |-> 80],
     nutrientLevel |-> [min |-> 550, max |-> 750]]

\* esp32_1_data?.temperature and its like: a field of a stored reading
FieldOf(stored, field) == IF stored = <<>> THEN JSUndefined ELSE stored[1][field]

\* emitCurrentPlantData: <<the combined reading it emits as 'data'>>, or <<>>
\* when it returns early
EmitCurrentPlantData(stored, type) ==
    LET esp32_1_data == stored["esp32_1"]
        esp32_2_data == stored["esp32_2"]
        own == IF type = "level1" THEN esp32_1_data ELSE esp32_2_data
    IN  IF esp32_1_data = <<>> /\ esp32_2_data = <<>>
        THEN <<>>
        ELSE <<[temperature |-> OrElse(FieldOf(esp32_1_data, "temperature"), JSNum(20)),
                humidity |-> OrElse(FieldOf(esp32_1_data, "humidity"), JSNum(50)),
                moisture |-> OrElse(FieldOf(own, "moisture"), JSNum(0)),
                sunlight |-> OrElse(FieldOf(own, "sunlight"), JSNum(0)),
                nitrogen |-> OrElse(FieldOf(own, "nitrogen"), JSNum(0)),
                phosphorus |-> OrElse(FieldOf(own, "phosphorus"), JSNum(0)),
                potassium |-> OrElse(FieldOf(own, "potassium"), JSNum(0)),
                waterLevel |-> OrElse(FieldOf(esp32_1_data, "waterLevel"), JSNum(0)),
                fertilizerLevel |->
                    OrElse(FieldOf(esp32_2_data, "fertilizerLevel"), JSNum(0)),
                deviceId |-> IF type = "level1" THEN "esp32_1" ELSE "esp32_2"]>>

\* value < n on numbers: Infinity is below nothing
Less(value, n) == value.k = "number" /\ value.n < n

\* (nitrogen + phosphorus + potassium) / 3 < n
AverageLess(a, b, c, n) ==
    /\ a.k = "number" /\ b.k = "number" /\ c.k = "number"
    /\ a.n + b.n + c.n < 3 * n

Alert(type, message) == [type |-> type, message |-> message]

When(cond, alert) == IF cond THEN <<alert>> ELSE <<>>

\* checkSensorAlerts
CheckSensorAlerts(d) ==
    When(Less(d.moisture, plant.moisture.min), Alert("warning", "moisture"))
      \o When(Less(d.sunlight, plant.sunlight.min), Alert("warning", "sunlight"))
      \o When(AverageLess(d.nitrogen, d.phosphorus, d.potassium, LowNutrientAverage),
              Alert("warning", "nutrients"))

\* checkReservoirAlerts
CheckReservoirAlerts(levels) ==
    When(Less(levels.water, LowReservoirLevel), Alert("error", "water-reservoir"))
      \o When(Less(levels.fertilizer, LowReservoirLevel),
              Alert("error", "fertilizer-reservoir"))

RECURSIVE GCD(_, _)
GCD(a, b) == IF b = 0 THEN a ELSE GCD(b, a % b)

\* A fraction in lowest terms; its denominator is positive.
Reduce(r) ==
    [num |-> r.num \div GCD(Abs(r.num), r.den), den |-> r.den \div GCD(Abs(r.num), r.den)]

\* totalScore += score * weight, the weight in hundredths
AddWeighted(total, score, weight) ==
    Reduce([num |-> total.num * score.den + weight * score.num * total.den,
            den |-> total.den * score.den])

\* if (overallScore >= 90) status = 'excellent'; else if ...
StatusOf(score) ==
    IF score.num >= 90 * score.den THEN "excellent"
    ELSE IF score.num >= 75 * score.den THEN "good"
    ELSE IF score.num >= 60 * score.den THEN "fair"
    ELSE IF score.num >= 40 * score.den THEN "poor"
    ELSE "critical"

\* calculatePlantHealth: sd is the hook's sensorData, p its plant argument; the
\* weights 0.3, 0.25, 0.25, 0.2 are carried in hundredths, as is factorCount.
CalculatePlantHealth(sd, p) ==
    IF sd = <<>> \/ p = <<>>
    THEN [status |-> "fair", score |-> [num |-> 50, den |-> 1]]
    ELSE LET ScoreOf(field) ==
                 Reduce(CalculateParameterScore(sd[1][field].n, p[1][field]))
             total1 == AddWeighted([num |-> 0, den |-> 1], ScoreOf("moisture"), 30)
             total2 == AddWeighted(total1, ScoreOf("temperature"), 25)
             total3 == AddWeighted(total2, ScoreOf("sunlight"), 25)
             totalScore == AddWeighted(total3, ScoreOf("humidity"), 20)
             factorCount == 30 + 25 + 25 + 20
             overallScore == Reduce([num |-> totalScore.num,
                                     den |-> totalScore.den * factorCount])
         IN  [status |-> StatusOf(overallScore), score |-> overallScore]

\* The readings the health is computed for: each scored dimension far below,
\* just below, inside and above its optimal range.
HealthReading(moisture, temperature, lux, humidity) ==
    [temperature |-> JSNum(temperature), humidity |-> JSNum(humidity),
     moisture |-> JSNum(moisture), sunlight |-> JSNum(lux),
     nitrogen |-> JSNum(50), phosphorus |-> JSNum(50), potassium |-> JSNum(50),
     waterLevel |-> JSNum(50), fertilizerLevel |-> JSNum(60), deviceId |-> "esp32_1"]

HealthReadings ==
    {HealthReading(m, t, l, h) :
       m \in {40, 62, 70, 90}, t \in {0, 14, 20, 24},
       l \in {100, 4000, 5000, 8000}, h \in {30, 58, 70, 85}}

Slice(seq, n) == IF Len(seq) <= n THEN seq ELSE SubSeq(seq, 1, n)

\* prev => [...prev, ...created].slice(0, 10)
SetAlertsAtEnd(created, prev) == Slice(prev \o created, AlertBufferSize)

\* prev => [...created, ...prev].slice(0, 10)
SetAlerts(created, prev) == Slice(created \o prev, AlertBufferSize)

\* The id of an alert made at time t: `moisture-${Date.now()}` and its like in
\* checkSensorAlerts and checkReservoirAlerts, Date.now().toString() in the
\* service's alerts and in handleError, handleControlSuccess, handleControlError.
AlertId(alert, t) ==
    IF alert.message \in {"moisture", "sunlight", "nutrients", "water-reservoir",
                          "fertilizer-reservoir"}
    THEN [prefix |-> alert.message, at |-> t]
    ELSE [prefix |-> "", at |-> t]

RECURSIVE Sum(_)
Sum(seq) == IF seq = <<>> THEN 0 ELSE Head(seq) + Sum(Tail(seq))

\* A handler of the hook puts the alerts it created into the buffer; a
\* handler that created none does not call setAlerts.
InsertAlerts(created) ==
    /\ newAlerts' = created
    /\ IF created = <<>>
       THEN UNCHANGED <<alerts, inserted, alertIds>>
       ELSE /\ Sum(inserted) + Len(created) <= MaxInserted
            /\ alerts' = SetAlerts([i \in 1..Len(created) |->
                                      [batch |-> Len(inserted) + 1, idx |-> i]], alerts)
            /\ alertIds' = SetAlerts([i \in 1..Len(created) |-> AlertId(created[i], now)],
                                     alertIds)
            /\ inserted' = Append(inserted, Len(created))

\* handleData of the hook, the hook's plantType being the service's
HandleData(d) ==
    IF d.deviceId = (IF plantType = "level1" THEN "esp32_1" ELSE "esp32_2")
    THEN /\ sensorData' = <<d>>
         /\ processed' = <<d>>
         /\ InsertAlerts(CheckSensorAlerts(d))
    ELSE /\ processed' = <<>>
         /\ newAlerts' = <<>>
         /\ UNCHANGED <<sensorData, alerts, inserted, alertIds>>

\* handleReservoirData of the hook
HandleReservoirData(levels) ==
    /\ processed' = <<>>
    /\ InsertAlerts(CheckReservoirAlerts(levels))
    /\ UNCHANGED sensorData

\* The callbacks the hook subscribes with arduinoService.on: what the
\* notification `event` carrying `payload` does to the hook.
HookReceives(event, payload) ==
    CASE event = "data" -> HandleData(payload)
      [] event = "reservoir" -> HandleReservoirData(payload)
      [] OTHER -> /\ processed' = <<>>
                  /\ InsertAlerts(<<Alert(payload.type, payload.message)>>)
                  /\ UNCHANGED sensorData

\* The device payloads of the snapshots: moisture, light and nutrients all
\* sufficient or all low (moisture 40 against [65, 85]), the water reservoir
\* at 15% or 50%, and one reading taken at 0 degrees.
Reading(moisture, lux, npk, water) ==
    [EmptyPayload EXCEPT !.temperature = JSNum(20), !.humidity = JSNum(70),
                         !.moisture_percent = JSNum(moisture), !.lux = JSNum(lux),
                         !.nitrogen = JSNum(npk), !.phosphorus = JSNum(npk),
                         !.potassium = JSNum(npk), !.waterLevelPercent = JSNum(water)]

HookPayloads ==
    {Reading(70, 5000, 50, 50), Reading(40, 100, 10, 50), Reading(70, 5000, 50, 15),
     [Reading(70, 5000, 50, 50) EXCEPT !.temperature = JSNum(0)]}

\* What an 'init' event carries: sensorData (absent, or per device a payload
\* or nothing) and deviceStates (absent, or per device its pump and light).
Snapshot(p, q, ds) ==
    [sensorData |-> <<[esp32_1 |-> p, esp32_2 |-> q]>>, deviceStates |-> ds]

Snapshots ==
    {Snapshot(<<x>>, <<>>, <<>>) : x \in HookPayloads}
      \cup {Snapshot(<<>>, <<[EmptyPayload EXCEPT !.fertilizer_level = JSNum(60)]>>, <<>>),
            Snapshot(<<>>, <<>>, <<>>),
            [sensorData |-> <<>>,
             deviceStates |-> <<[esp32_1 |-> <<[pump |-> TRUE, light |-> TRUE]>>,
                                 esp32_2 |-> <<>>]>>]}

\* ----------------------------------------------------------------- actions
\* The fields of a new ArduinoService.
ServiceInit ==
    /\ sockets = <<>>
    /\ socket = 0
    /\ connected = FALSE
    /\ reconnectAttempts = 0
    /\ connectionTimeout = FALSE
    /\ timers = 0
    /\ lastDelay = 0
    /\ errorEvents = 0
    /\ raised = Raised("none", "none")
    /\ ret = "none"
    /\ lastOp = "init"
    /\ plantType = "level1"
    /\ wateringActive = FALSE
    /\ lightActive = FALSE
    /\ cmds = <<>>
    /\ wire = {}
    /\ listeners = [e \in EventNames |-> <<>>]
    /\ emission = NoEmission

\* No payload has been normalized.
NoPayload ==
    /\ data = EmptyPayload
    /\ normalized = <<>>

\* No score has been computed.
NoParameter ==
    /\ parameter = [value |-> 0, optimal |-> [min |-> 0, max |-> 0]]
    /\ parameterScore = <<>>
    /\ profile = <<plant>>
    /\ plantHealth = <<>>

\* The service has stored no reading and the hook's state is as useState made it.
HookInit ==
    /\ currentSensorData = [d \in Devices |-> <<>>]
    /\ currentReservoirLevels = [water |-> JSNum(75), fertilizer |-> JSNum(60)]
    /\ sensorData = <<>>
    /\ alerts = <<>>
    /\ inserted = <<>>
    /\ processed = <<>>
    /\ newAlerts = <<>>
    /\ now = 0
    /\ alertIds = <<>>

DataInit == NoPayload /\ NoParameter /\ HookInit

Init == ServiceInit /\ DataInit

\* A caller (the hook's effect, the dashboard's connect button) calls connect().
Connect(maxSockets) ==
    /\ ConnectBody(maxSockets)
    /\ timers' = timers
    /\ lastOp' = "connect"
    /\ UNCHANGED <<cmdVars, emitVars, dataVars>>

\* A backoff timer set by handleConnectionError fires and calls connect().
BackoffTimerFires ==
    /\ timers > 0
    /\ timers' = timers - 1
    /\ ConnectBody(MaxSockets)
    /\ lastOp' = "timer"
    /\ UNCHANGED <<cmdVars, emitVars, dataVars>>

\* The 'connect' handler registered by connect() on socket s.
SocketConnect(s) ==
    /\ sockets[s].st = "opening"
    /\ sockets' = SetSock(s, "open", 0)
    /\ connected' = TRUE
    /\ reconnectAttempts' = 0
    /\ errorEvents' = 0
    /\ connectionTimeout' = FALSE
    /\ raised' = Raised("true", RequestInitialData(sockets', socket))
    /\ ret' = "none"
    /\ lastOp' = "socket_connect"
    /\ UNCHANGED <<cmdVars, emitVars, dataVars>>
    /\ UNCHANGED <<socket, timers, lastDelay>>

\* The 'connect_error' handler registered by connect() on socket s.
SocketConnectError(s) ==
    /\ sockets[s].st = "opening"
    /\ sockets' = IF sockets[s].errs + 1 > reconnectionAttempts
                  THEN SetSock(s, "closed", sockets[s].errs + 1)
                  ELSE SetSock(s, "opening", sockets[s].errs + 1)
    /\ connectionTimeout' = FALSE
    /\ HandleConnectionError
    /\ ret' = "none"
    /\ lastOp' = "connect_error"
    /\ UNCHANGED <<cmdVars, emitVars, dataVars>>
    /\ UNCHANGED socket

\* a 'disconnect' handler that treats every reason alike
SocketServerDisconnectIgnored(s) ==
    /\ sockets[s].st = "open"
    /\ sockets' = SetSock(s, "closed", 0)
    /\ connected' = FALSE
    /\ raised' = Raised("false", "none")
    /\ ret' = "none"
    /\ lastOp' = "server_disconnect"
    /\ UNCHANGED <<cmdVars, emitVars, dataVars>>
    /\ UNCHANGED <<socket, reconnectAttempts, connectionTimeout, timers, lastDelay, errorEvents>>

\* The 'disconnect' handler of setupSocketListeners on socket s, for a server
\* initiated disconnect (the transport does not reconnect by itself).
SocketServerDisconnect(s) ==
    /\ sockets[s].st = "open"
    /\ sockets' = SetSock(s, "closed", 0)
    /\ HandleConnectionError
    /\ ret' = "none"
    /\ lastOp' = "server_disconnect"
    /\ UNCHANGED <<cmdVars, emitVars, dataVars>>
    /\ UNCHANGED <<socket, connectionTimeout>>

\* The same handler for a lost transport ('transport close', 'ping timeout'):
\* the socket's manager starts reconnecting, the first of its
\* reconnectionAttempts being the next thing that can fail.
SocketTransportDisconnect(s) ==
    /\ sockets[s].st = "open"
    /\ sockets' = SetSock(s, "opening", 1)
    /\ connected' = FALSE
    /\ raised' = Raised("false", "none")
    /\ ret' = "none"
    /\ lastOp' = "transport_disconnect"
    /\ UNCHANGED <<cmdVars, emitVars, dataVars>>
    /\ UNCHANGED <<socket, reconnectAttempts, connectionTimeout, timers, lastDelay, errorEvents>>

\* The connect watchdog armed by connect() fires after 20 s.
WatchdogFires ==
    /\ connectionTimeout
    /\ connectionTimeout' = FALSE
    /\ IF socket # 0 /\ ~connected
       THEN /\ sockets' = ClientClosed(sockets, socket)
            /\ HandleConnectionError
            /\ lastOp' = "watchdog_timeout"
       ELSE /\ lastOp' = "watchdog_noop"
            /\ raised' = Raised("none", "none")
            /\ UNCHANGED <<sockets, connected, reconnectAttempts, timers, lastDelay, errorEvents>>
    /\ ret' = "none"
    /\ UNCHANGED <<socket, cmdVars, emitVars, dataVars>>

\* disconnect()
Disconnect ==
    /\ connected' = FALSE
    /\ reconnectAttempts' = 0
    /\ errorEvents' = 0
    /\ connectionTimeout' = FALSE
    /\ sockets' = ClientClosed(sockets, socket)
    /\ socket' = 0
    /\ raised' = Raised("false", "none")
    /\ ret' = "none"
    /\ lastOp' = "disconnect"
    /\ UNCHANGED <<cmdVars, emitVars, dataVars>>
    /\ UNCHANGED <<timers, lastDelay>>

Next ==
    \/ Connect(MaxSockets)
    \/ BackoffTimerFires
    \/ \E s \in SockIds : SocketConnect(s)
    \/ \E s \in SockIds : SocketConnectError(s)
    \/ \E s \in SockIds : SocketServerDisconnect(s)
    \/ \E s \in SockIds : SocketTransportDisconnect(s)
    \/ WatchdogFires
    \/ Disconnect

Spec == Init /\ [][Next]_vars

\* ------------------------------------------------------ command dispatcher
Actions == {"water", "light", "nutrients"}

\* const deviceId = this.plantType === 'level1' ? 'esp32_1' : 'esp32_2'
DeviceOf(type) == IF type = "level1" THEN "esp32_1" ELSE "esp32_2"

\* commandMap of sendCommand
CommandMap(action) ==
    CASE action = "water" -> "WATER_PUMP"
      [] action = "light" -> "LED"
      [] action = "nutrients" -> "FERT_PUMP"

\* a duration that does not depend on the action
DurationAlwaysDefault(action) == 5000

\* duration: action === 'nutrients' ? 3000 : 5000
DurationOf(action) == IF action = "nutrients" THEN 3000 ELSE 5000

\* The guard of sendCommand: if (!this.connected || !this.socket)
SendGuardFails == ~connected \/ socket = 0

\* Object.values(COMMAND_TYPES) of the backend
COMMAND_TYPES ==
    {"light_on", "light_off", "water_plant", "add_nutrients", "water_pump",
     "fert_pump", "led", "grow_light", "nutrient_pump"}

\* commandMapping[command] || command in POST /send-command
BackendCommand(command) ==
    CASE command = "water" -> "WATER_PUMP"
      [] command = "light" -> "LED"
      [] command = "nutrients" -> "FERT_PUMP"
      [] OTHER -> command

\* POST /send-command answers 400 unless the mapped command is a COMMAND_TYPES value
BackendAccepts(command) == BackendCommand(command) \in COMMAND_TYPES

\* The event the backend broadcasts when it queues a command and when the
\* command's 5 minute timer finds it still pending.
BackendOutcomeEvent == "controlResponse"

\* The events setupSocketListeners and connect() register a listener for.
SocketListeners ==
    {"init", "commandIssued", "commandTimeout", "disconnect", "reconnect",
     "reconnect_error", "connect", "connect_error"}

\* Command tokens another HTTP client of the backend posts.
OtherTokens == {"water_pump", "water"}

OpenSockets == {s \in SockIds : sockets[s].st = "open"}

\* io.emit(ev, {success, ...}) about command c: one copy for every connected
\* client socket
Broadcast(ev, c, success) ==
    {[ev |-> ev, cmd |-> c, success |-> success, sock |-> s] : s \in OpenSockets}

\* A send-command request and what became of it:
\*   src     "client" (sendCommand's fetch) or "other" (another HTTP client)
\*   st      "sent": the request is in flight; "ok" / "failed": sendCommand has
\*           returned true / false; "done": the other client has its reply
\*   reply   the HTTP reply that has arrived and sendCommand has not yet read
\*   bst     the command's status in the backend's pendingCommands ("none": it
\*           is not queued there)
\*   succ, err   controlSuccess / controlError notifications raised for it
\*   before  isWateringActive() and isLightActive() when the request was made
NewCommand(src, deviceId, command, duration, action) ==
    [src |-> src, deviceId |-> deviceId, command |-> command,
     duration |-> duration, action |-> action,
     st |-> "sent", reply |-> "none", bst |-> "none", succ |-> 0, err |-> 0,
     before |-> [watering |-> wateringActive, light |-> lightActive]]

CmdIds == 1..Len(cmds)

Notified(c) == cmds[c].succ + cmds[c].err

\* setActivePlant(type)
SetActivePlant(type) ==
    /\ plantType' = type
    /\ lastOp' = "setActivePlant"
    /\ ret' = "none"
    /\ UNCHANGED <<connVars, wateringActive, lightActive, cmds, wire, emitVars, dataVars>>

\* sendCommand(action) up to its await fetch(...)
SendCommand(action) ==
    /\ IF SendGuardFails
       THEN /\ ret' = "false"
            /\ cmds' = cmds
       ELSE /\ Len(cmds) < MaxCommands
            /\ cmds' = Append(cmds, NewCommand("client", DeviceOf(plantType),
                                  CommandMap(action), DurationOf(action), action))
            /\ ret' = "pending"
    /\ lastOp' = "sendCommand"
    /\ UNCHANGED <<connVars, plantType, wateringActive, lightActive, wire, emitVars, dataVars>>

\* Another HTTP client posts /send-command.
OtherClientPosts(deviceId, command) ==
    /\ Len(cmds) < MaxCommands
    /\ cmds' = Append(cmds, NewCommand("other", deviceId, command, 3000, "none"))
    /\ lastOp' = "otherPost"
    /\ ret' = "none"
    /\ UNCHANGED <<connVars, plantType, wateringActive, lightActive, wire, emitVars, dataVars>>

\* app.post('/send-command') of the backend, handling request c.
BackendSendCommand(c) ==
    /\ cmds[c].st = "sent"
    /\ cmds[c].reply = "none"
    /\ IF BackendAccepts(cmds[c].command)
       THEN /\ cmds' = [cmds EXCEPT ![c].reply = "ok", ![c].bst = "pending"]
            /\ wire' = wire \cup Broadcast(BackendOutcomeEvent, c, TRUE)
       ELSE /\ cmds' = [cmds EXCEPT ![c].reply = "notok"]
            /\ wire' = wire
    /\ lastOp' = "backendSendCommand"
    /\ ret' = "none"
    /\ UNCHANGED <<connVars, plantType, wateringActive, lightActive, emitVars, dataVars>>

\* The 5 minute timer of POST /send-command fires for command c.
BackendCommandTimer(c) ==
    /\ cmds[c].bst = "pending"
    /\ cmds' = [cmds EXCEPT ![c].bst = "timeout"]
    /\ wire' = wire \cup Broadcast(BackendOutcomeEvent, c, FALSE)
    /\ lastOp' = "backendTimer"
    /\ ret' = "none"
    /\ UNCHANGED <<connVars, plantType, wateringActive, lightActive, emitVars, dataVars>>

\* The server at backendUrl is another deployment, or the network fails: the
\* fetch of request c gets reply r without the backend above queueing it.
FetchSettles(c, r) ==
    /\ cmds[c].src = "client"
    /\ cmds[c].st = "sent"
    /\ cmds[c].reply = "none"
    /\ cmds' = [cmds EXCEPT ![c].reply = r]
    /\ lastOp' = "fetchSettles"
    /\ ret' = "none"
    /\ UNCHANGED <<connVars, plantType, wateringActive, lightActive, wire, emitVars, dataVars>>

\* sendCommand updating its flags before it looks at response.ok
SendCommandResumesOptimistic(c) ==
    /\ cmds[c].st = "sent"
    /\ cmds[c].reply # "none"
    /\ Notified(c) < MaxNotifications
    /\ wateringActive' =
           IF cmds[c].action = "water" THEN ~wateringActive ELSE wateringActive
    /\ lightActive' =
           IF cmds[c].action = "light" THEN ~lightActive ELSE lightActive
    /\ IF cmds[c].reply = "ok"
       THEN cmds' = [cmds EXCEPT ![c].st = "ok"] /\ ret' = "true"
       ELSE cmds' = [cmds EXCEPT ![c].st = "failed", ![c].err = @ + 1] /\ ret' = "false"
    /\ lastOp' = "sendCommandResumes"
    /\ UNCHANGED <<connVars, plantType, wire, emitVars, dataVars>>

\* sendCommand after its await: response.ok, !response.ok, or the catch.
SendCommandResumes(c) ==
    /\ cmds[c].st = "sent"
    /\ cmds[c].reply # "none"
    /\ IF cmds[c].src = "other"
       THEN /\ cmds' = [cmds EXCEPT ![c].st = "done"]
            /\ ret' = "none"
            /\ UNCHANGED <<wateringActive, lightActive>>
       ELSE IF cmds[c].reply = "ok"
       THEN /\ cmds' = [cmds EXCEPT ![c].st = "ok"]
            /\ wateringActive' =
                   IF cmds[c].action = "water" THEN ~wateringActive ELSE wateringActive
            /\ lightActive' =
                   IF cmds[c].action = "light" THEN ~lightActive ELSE lightActive
            /\ ret' = "true"
       ELSE /\ Notified(c) < MaxNotifications
            /\ cmds' = [cmds EXCEPT ![c].st = "failed", ![c].err = @ + 1]
            /\ ret' = "false"
            /\ UNCHANGED <<wateringActive, lightActive>>
    /\ lastOp' = "sendCommandResumes"
    /\ UNCHANGED <<connVars, plantType, wire, emitVars, dataVars>>

\* The 'commandIssued' handler of setupSocketListeners, for an event about
\* command c carrying the given value.
OnCommandIssued(c, value) ==
    /\ Notified(c) < MaxNotifications
    /\ wateringActive' =
           IF cmds[c].command \in {"water_pump", "WATER_PUMP"}
           THEN value ELSE wateringActive
    /\ lightActive' =
           IF cmds[c].command \in {"led", "LED"} THEN value ELSE lightActive
    /\ cmds' = [cmds EXCEPT ![c].succ = @ + 1]

\* The 'commandTimeout' handler of setupSocketListeners.
OnCommandTimeout(c) ==
    /\ Notified(c) < MaxNotifications
    /\ cmds' = [cmds EXCEPT ![c].err = @ + 1]
    /\ UNCHANGED <<wateringActive, lightActive>>

\* What a client socket does with event ev about command c: it runs the
\* listener registered for ev, and drops an event nothing listens for.
SocketReceives(ev, c, value) ==
    IF ev = "commandIssued" THEN OnCommandIssued(c, value)
    ELSE IF ev = "commandTimeout" THEN OnCommandTimeout(c)
    ELSE UNCHANGED <<cmds, wateringActive, lightActive>>

\* An event the backend emitted reaches the socket it was emitted to.
Deliver(m, value) ==
    /\ m \in wire
    /\ sockets[m.sock].st = "open"
    /\ wire' = wire \ {m}
    /\ SocketReceives(m.ev, m.cmd, value)
    /\ lastOp' = "deliver"
    /\ ret' = "none"
    /\ UNCHANGED <<connVars, plantType, emitVars, dataVars>>

\* The server that accepted the client's command c (not the backend above)
\* reports on it over the open socket s: a 'commandIssued' acknowledgement or a
\* 'commandTimeout', possibly more than once.
SocketCommandEvent(s, ev, c, value) ==
    /\ sockets[s].st = "open"
    /\ cmds[c].src = "client"
    /\ cmds[c].st = "ok"
    /\ cmds[c].bst = "none"
    /\ SocketReceives(ev, c, value)
    /\ lastOp' = ev
    /\ ret' = "none"
    /\ UNCHANGED <<connVars, plantType, wire, emitVars, dataVars>>

CmdNext ==
    \/ Connect(CmdMaxSockets)
    \/ \E s \in SockIds : SocketConnect(s)
    \/ \E s \in SockIds : SocketTransportDisconnect(s)
    \/ Disconnect
    \/ \E t \in {"level1", "level2"} : SetActivePlant(t)
    \/ \E a \in Actions : SendCommand(a)
    \/ \E d \in {"esp32_1"}, t \in OtherTokens : OtherClientPosts(d, t)
    \/ \E c \in CmdIds : BackendSendCommand(c)
    \/ \E c \in CmdIds : BackendCommandTimer(c)
    \/ \E c \in CmdIds, r \in {"ok", "notok", "throw"} : FetchSettles(c, r)
    \/ \E c \in CmdIds : SendCommandResumes(c)
    \/ \E m \in wire, v \in BOOLEAN : Deliver(m, v)
    \/ \E s \in SockIds, c \in CmdIds, v \in BOOLEAN :
           SocketCommandEvent(s, "commandIssued", c, v)
    \/ \E s \in SockIds, c \in CmdIds :
           SocketCommandEvent(s, "commandTimeout", c, FALSE)

\* The command dispatcher over a transport that connects and drops but does not
\* fail to connect; the failure and backoff path is covered by Spec.
SpecCmd == Init /\ [][CmdNext]_vars

\* on(event, callback)
On(event, callback) ==
    /\ Len(listeners[event]) < MaxListeners
    /\ listeners' = [listeners EXCEPT ![event] = OnArray(@, callback)]
    /\ emission' = NoEmission
    /\ ret' = "none"
    /\ lastOp' = "on"
    /\ UNCHANGED <<connVars, cmdVars, dataVars>>

\* off(event, callback)
Off(event, callback) ==
    /\ listeners' = [listeners EXCEPT ![event] = OffArray(@, callback)]
    /\ emission' = NoEmission
    /\ ret' = "none"
    /\ lastOp' = "off"
    /\ UNCHANGED <<connVars, cmdVars, dataVars>>

\* emit(event, data), the callbacks behaving as `does` says
Emit(event, does) ==
    /\ Len(EmitRun(listeners[event], does).callbacks) <= MaxListeners
    /\ listeners' = [listeners EXCEPT ![event] = EmitRun(@, does).callbacks]
    /\ emission' = [event |-> event, snapshot |-> listeners[event], does |-> does,
                    invoked |-> EmitRun(listeners[event], does).invoked]
    /\ ret' = "none"
    /\ lastOp' = "emit"
    /\ UNCHANGED <<connVars, cmdVars, dataVars>>

EmitNext ==
    \/ \E e \in EventNames, h \in Handlers : On(e, h)
    \/ \E e \in EventNames, h \in Handlers : Off(e, h)
    \/ \E e \in EventNames, does \in [Handlers -> Behaviours] : Emit(e, does)

SpecEmit == Init /\ [][EmitNext]_vars

\* --------------------------------------------------------------- normalizer
\* A payload arrives from a device.
InitNorm ==
    /\ ServiceInit
    /\ data \in Payloads
    /\ normalized = <<>>
    /\ NoParameter
    /\ HookInit

\* validateSensorData(data, deviceId, plantType)
Normalize(deviceId) ==
    /\ normalized = <<>>
    /\ normalized' = <<ValidateSensorData(data, deviceId)>>
    /\ ret' = "none"
    /\ lastOp' = "validateSensorData"
    /\ UNCHANGED <<connVars, cmdVars, emitVars, data, scoreVars, hookVars>>

NormNext == \E d \in {"esp32_1", "esp32_2"} : Normalize(d)

SpecNorm == InitNorm /\ [][NormNext]_vars

\* ------------------------------------------------------------- plant health
\* A sensor value and the optimal range of its dimension.
InitScore ==
    /\ ServiceInit
    /\ NoPayload
    /\ parameter \in Parameters
    /\ parameterScore = <<>>
    /\ profile = <<plant>>
    /\ plantHealth = <<>>
    /\ HookInit

\* calculateParameterScore(value, optimal)
ParameterScore ==
    /\ parameterScore = <<>>
    /\ parameterScore' = <<CalculateParameterScore(parameter.value, parameter.optimal)>>
    /\ ret' = "none"
    /\ lastOp' = "calculateParameterScore"
    /\ UNCHANGED <<connVars, cmdVars, emitVars, normVars, parameter, hookVars>>
    /\ UNCHANGED <<profile, plantHealth>>

ScoreNext == ParameterScore

SpecScore == InitScore /\ [][ScoreNext]_vars

\* The hook renders with some sensorData (null before the first reading) and
\* some plant argument.
InitHealth ==
    /\ ServiceInit
    /\ NoPayload
    /\ parameter = [value |-> 0, optimal |-> [min |-> 0, max |-> 0]]
    /\ parameterScore = <<>>
    /\ profile \in {<<>>, <<plant>>}
    /\ plantHealth = <<>>
    /\ currentSensorData = [d \in Devices |-> <<>>]
    /\ currentReservoirLevels = [water |-> JSNum(75), fertilizer |-> JSNum(60)]
    /\ sensorData \in {<<>>} \cup {<<r>> : r \in HealthReadings}
    /\ alerts = <<>>
    /\ inserted = <<>>
    /\ processed = <<>>
    /\ newAlerts = <<>>
    /\ now = 0
    /\ alertIds = <<>>

\* plantHealth: calculatePlantHealth() in the value the hook returns
PlantHealth ==
    /\ plantHealth = <<>>
    /\ plantHealth' = <<CalculatePlantHealth(sensorData, profile)>>
    /\ ret' = "none"
    /\ lastOp' = "calculatePlantHealth"
    /\ UNCHANGED <<connVars, cmdVars, emitVars, normVars, hookVars>>
    /\ UNCHANGED <<parameter, parameterScore, profile>>

HealthNext == PlantHealth

SpecHealth == InitHealth /\ [][HealthNext]_vars

\* ------------------------------------------------- readings and the hook
\* The 'init' handler of setupSocketListeners, on any socket the service made:
\* it stores the normalized payload of each device the snapshot names, emits
\* the combined reading to the hook, and takes over the device states.
SocketInit(snapshot) ==
    LET sd == snapshot.sensorData
        ds == snapshot.deviceStates
        stored == [d \in Devices |->
                     IF sd # <<>> /\ sd[1][d] # <<>>
                     THEN <<ValidateSensorData(sd[1][d][1], d)>>
                     ELSE currentSensorData[d]]
        combined == EmitCurrentPlantData(stored, plantType)
        currentDeviceId == IF plantType = "level1" THEN "esp32_1" ELSE "esp32_2"
    IN  /\ currentSensorData' = stored
        /\ IF sd # <<>> /\ combined # <<>>
           THEN HookReceives("data", combined[1])
           ELSE /\ processed' = <<>>
                /\ newAlerts' = <<>>
                /\ UNCHANGED <<sensorData, alerts, inserted, alertIds>>
        /\ wateringActive' =
              IF ds # <<>> /\ ds[1]["esp32_1"] # <<>>
              THEN ds[1]["esp32_1"][1].pump ELSE wateringActive
        /\ lightActive' =
              IF ds # <<>> /\ ds[1][currentDeviceId] # <<>>
              THEN ds[1][currentDeviceId][1].light ELSE lightActive
        /\ ret' = "none"
        /\ lastOp' = "init_event"
        /\ UNCHANGED <<currentReservoirLevels, now>>
        /\ UNCHANGED <<connVars, plantType, cmds, wire, emitVars, normVars, scoreVars>>

\* The service raises 'alert', 'error', 'controlSuccess' or 'controlError' and
\* the hook's handler for it inserts one alert.
ServiceNotifies(event, type) ==
    /\ HookReceives(event, Alert(type, event))
    /\ UNCHANGED <<currentSensorData, currentReservoirLevels, now>>
    /\ ret' = "none"
    /\ lastOp' = event
    /\ UNCHANGED <<connVars, cmdVars, emitVars, normVars, scoreVars>>

HookNext ==
    \/ \E snapshot \in Snapshots : SocketInit(snapshot)
    \/ ServiceNotifies("alert", "success")
    \/ ServiceNotifies("error", "error")
    \/ ServiceNotifies("controlSuccess", "success")
    \/ ServiceNotifies("controlError", "error")

SpecHook == Init /\ [][HookNext]_vars

\* A millisecond passes.
Tick ==
    /\ now < MaxNow
    /\ now' = now + 1
    /\ ret' = "none"
    /\ lastOp' = "tick"
    /\ UNCHANGED <<connVars, cmdVars, emitVars, normVars, scoreVars>>
    /\ UNCHANGED <<currentSensorData, currentReservoirLevels, sensorData, alerts,
                   inserted, processed, newAlerts, alertIds>>

ClockNext == HookNext \/ Tick

\* The hook's handlers with the clock their alert ids are read from.
SpecClock == Init /\ [][ClockNext]_vars

\* ------------------------------------------------------------------ claims
FailureOps == {"connect_error", "server_disconnect", "watchdog_timeout"}

ConnectOps == {"connect", "timer"}

\* C2: once the attempt counter has reached the maximum of 5, every connect()
\* call (a caller's or a backoff timer's) returns false, creates no transport
\* session and emits one exhausted-retries 'error' notification.
C2_ExhaustedConnectFailsFast ==
    [][(lastOp' \in ConnectOps /\ reconnectAttempts >= 5)
          => /\ sockets' = sockets
             /\ socket' = socket
             /\ ret' = "false"
             /\ errorEvents' = errorEvents + 1]_vars

C2_Witness ==
    /\ lastOp = "connect"
    /\ reconnectAttempts = 5
    /\ ret = "false"
    /\ errorEvents >= 2

\* C3 (as claimed): between two resets of the attempt counter the terminal
\* 'error' notification is raised at most once, whatever failure events or
\* connect() calls follow the failure that exhausted the budget.
C3_TerminalErrorOnce == errorEvents <= 1

\* The delays of the claim, min(5000 * 1.5^(k-1), 20000) for k = 1..6.
ClaimedDelay == <<5000, 7500, 11250, 16875, 20000, 20000>>

\* C4 (as claimed): the failure that brings the attempt counter to k, for k in
\* 1..6, schedules a retry after min(5000 * 1.5^(k-1), 20000) ms.
C4_DelayForOneToSix ==
    (lastOp \in FailureOps /\ reconnectAttempts \in 1..6)
        => lastDelay = ClaimedDelay[reconnectAttempts]

\* C4 (amended): the failure that brings the attempt counter to k schedules a
\* retry after 5000, 7500, 11250, 16875 ms for k = 1..4, and schedules no
\* retry at all for k >= 5, so the 20000 ms ceiling is never used.
C4_DelayForOneToFour ==
    lastOp \in FailureOps
        => /\ reconnectAttempts >= 1
           /\ reconnectAttempts <= 4 => lastDelay = ClaimedDelay[reconnectAttempts]
           /\ reconnectAttempts >= 5 => lastDelay = 0

C4_Witness ==
    /\ lastOp \in FailureOps
    /\ reconnectAttempts = 4
    /\ lastDelay = 16875

\* C7 (as claimed): after disconnect() has set the socket to null, no backoff
\* timer scheduled earlier runs a connection attempt: a timer's connect()
\* creates no transport session while the manager holds no socket.
C7_DisconnectCancelsRetries ==
    [][(socket = 0 /\ lastOp' = "timer")
          => /\ sockets' = sockets
             /\ socket' = 0]_vars

\* C8 (as claimed): while the manager is connected no backoff timer scheduled
\* before the connection runs connect(), and no transport session is created
\* by one.
C8_ConnectCancelsRetries ==
    [][IsConnected => (lastOp' = "timer" => FALSE)]_vars

\* C9 (as claimed): in the failed state (retry budget exhausted) a caller's
\* connect() starts a new connection attempt on a new transport session.
C9_ConnectLeavesFailed ==
    [][(BudgetExhausted(reconnectAttempts) /\ lastOp' = "connect")
          => /\ Len(sockets') = Len(sockets) + 1
             /\ socket' = Len(sockets')]_vars

\* C1 (as claimed): whenever isConnected() is false, sendCommand(action)
\* returns false at once and issues no send-command request.
C1_NotConnectedSendsNothing ==
    [][(lastOp' = "sendCommand" /\ ~IsConnected)
          => /\ ret' = "false"
             /\ cmds' = cmds]_vars

\* C5 (as claimed): at most one outcome notification (controlSuccess or
\* controlError) is raised for any one command.
C5_OneOutcomePerCommand ==
    \A c \in CmdIds : Notified(c) <= 1

\* C6 (as claimed, the no-acknowledgement case): when the backend's report
\* that a command it queued has timed out reaches a client socket, exactly
\* one timeout notification and no success notification is raised for it.
C6_TimeoutNotifiedOnce ==
    [][\A m \in wire :
          (lastOp' = "deliver" /\ m \notin wire' /\ ~m.success
             /\ cmds[m.cmd].bst = "timeout")
          => /\ cmds'[m.cmd].err = 1
             /\ cmds'[m.cmd].succ = 0]_vars

NoDuplicates(seq) == \A i, j \in 1..Len(seq) : seq[i] = seq[j] => i = j

\* The callbacks an emission is claimed to invoke: those of the snapshot taken
\* when it starts, in subscription order, leaving out each one an earlier
\* invoked callback has removed with off().
RECURSIVE ExpectedFrom(_, _, _, _, _)
ExpectedFrom(k, snapshot, does, removed, invoked) ==
    IF k > Len(snapshot) THEN invoked
    ELSE IF snapshot[k] \in removed
    THEN ExpectedFrom(k + 1, snapshot, does, removed, invoked)
    ELSE ExpectedFrom(k + 1, snapshot, does,
             IF does[snapshot[k]].op = "off"
             THEN removed \cup {does[snapshot[k]].h} ELSE removed,
             Append(invoked, snapshot[k]))

\* C10 (as claimed): emit() invokes, in subscription order and once each,
\* exactly the callbacks subscribed when it starts that no off() has removed
\* before their turn (callbacks subscribed once, none re-subscribing another).
C10_EmitInvokesAllCurrent ==
    (/\ emission.event # "none"
     /\ NoDuplicates(emission.snapshot)
     /\ \A h \in Handlers : emission.does[h].op # "on")
        => emission.invoked
             = ExpectedFrom(1, emission.snapshot, emission.does, {}, <<>>)

\* C11: a payload that carries a percentage field and its raw alternate
\* normalizes to the percentage field's value, for every numeric value of the
\* percentage field (moisture_percent, else soil_moisture_percent, over
\* moisture; waterLevelPercent over waterLevel).
IsNumeric(value) == value.k \in {"number", "inf"}

C11_PercentageFieldWins ==
    normalized # <<>> =>
      /\ (IsNumeric(data.moisture_percent) /\ data.moisture # JSUndefined)
            => normalized[1].moisture = data.moisture_percent
      /\ (/\ data.moisture_percent = JSUndefined
          /\ IsNumeric(data.soil_moisture_percent)
          /\ data.moisture # JSUndefined)
            => normalized[1].moisture = data.soil_moisture_percent
      /\ (IsNumeric(data.waterLevelPercent) /\ data.waterLevel # JSUndefined)
            => normalized[1].waterLevel = data.waterLevelPercent

\* C12: every numeric field of the normalized reading is a number, never NaN,
\* null or undefined, and a field none of whose sources holds a value that
\* converts to a number takes its default: temperature 20, humidity 50, every
\* other field 0.
IsUnusable(value) == value.k \in {"undefined", "null", "empty", "text", "nan", "object"}

NumericFields ==
    {"temperature", "humidity", "moisture", "sunlight", "nitrogen", "phosphorus",
     "potassium", "waterLevel", "fertilizerLevel"}

SourcesOf(field) ==
    CASE field = "moisture" -> {"moisture_percent", "soil_moisture_percent", "moisture"}
      [] field = "sunlight" -> {"lux", "lightLevel", "ldr"}
      [] field = "nitrogen" -> {"N", "nitrogen"}
      [] field = "phosphorus" -> {"P", "phosphorus"}
      [] field = "potassium" -> {"K", "potassium"}
      [] field = "waterLevel" -> {"waterLevelPercent", "waterLevel"}
      [] field = "fertilizerLevel" -> {"fertilizer_level", "fertilizerLevel"}
      [] OTHER -> {field}

DocumentedDefault(field) ==
    CASE field = "temperature" -> 20 [] field = "humidity" -> 50 [] OTHER -> 0

C12_DefaultsAndNoNaN ==
    normalized # <<>> =>
      \A field \in NumericFields :
        /\ normalized[1][field].k \in {"number", "inf"}
        /\ (\A f \in SourcesOf(field) : IsUnusable(data[f]))
              => normalized[1][field] = JSNum(DocumentedDefault(field))

C12_Witness ==
    /\ normalized # <<>>
    /\ data.temperature.k = "text"
    /\ normalized[1].temperature = JSNum(20)

\* C13: the score of a value lying exactly at min - tolerance, the tolerance
\* being 20% of max - min, is 80, for every optimal range with min < max.
C13_ScoreAtToleranceEdge ==
    (/\ parameterScore # <<>>
     /\ parameter.optimal.min < parameter.optimal.max
     /\ 5 * (parameter.optimal.min - parameter.value)
           = parameter.optimal.max - parameter.optimal.min)
      => parameterScore[1].num = 80 * parameterScore[1].den

\* C14: the alert buffer holds at most 10 alerts, they are the most recently
\* inserted ones and they are ordered most recent first; 12 alerts inserted
\* one by one leave the last 10.
NewerThan(b) == Sum(SubSeq(inserted, b + 1, Len(inserted)))

HeldOf(b) == Cardinality({i \in 1..Len(alerts) : alerts[i].batch = b})

Min(a, b) == IF a <= b THEN a ELSE b

C14_BufferHoldsLastTen ==
    /\ Len(alerts) = Min(10, Sum(inserted))
    /\ \A i, j \in 1..Len(alerts) :
          /\ i < j => alerts[i].batch >= alerts[j].batch
          /\ i # j => alerts[i] # alerts[j]
    /\ \A b \in 1..Len(inserted) :
          HeldOf(b) = Max(0, Min(inserted[b], 10 - NewerThan(b)))

C14_Witness ==
    /\ inserted = [b \in 1..12 |-> 1]
    /\ alerts = [i \in 1..10 |-> [batch |-> 13 - i, idx |-> 1]]

\* C15: a processed reading with moisture below the profile's minimum appends
\* exactly one low-moisture warning, and one that reports the water reservoir
\* below 20% appends exactly one low-water error, every time it happens.
CountOf(type, message) ==
    Cardinality({i \in 1..Len(newAlerts) : newAlerts[i] = Alert(type, message)})

C15_BreachAppendsOneAlert ==
    processed # <<>> =>
      /\ Less(processed[1].moisture, 65) =>
            /\ CountOf("warning", "moisture") = 1
            /\ \A i \in 1..Len(newAlerts) : alerts[i] = [batch |-> Len(inserted), idx |-> i]
      /\ (currentSensorData["esp32_1"] # <<>> /\ Less(processed[1].waterLevel, 20))
            => CountOf("error", "water-reservoir") = 1

\* C16: when connected, sendCommand(action) issues exactly one send-command
\* request: token WATER_PUMP / LED / FERT_PUMP for water / light / nutrients,
\* duration 5000 / 5000 / 3000 ms, device esp32_1 for level1 and esp32_2 for
\* level2, by the plant selected when the call is made.
ClaimedRequest(action, type) ==
    [command |-> CASE action = "water" -> "WATER_PUMP"
                   [] action = "light" -> "LED"
                   [] action = "nutrients" -> "FERT_PUMP",
     duration |-> CASE action = "water" -> 5000
                    [] action = "light" -> 5000
                    [] action = "nutrients" -> 3000,
     deviceId |-> CASE type = "level1" -> "esp32_1" [] type = "level2" -> "esp32_2"]

C17_AcknowledgedToggle ==
    [][\A c \in CmdIds :
         (/\ lastOp' = "commandIssued"
          /\ cmds[c].st = "ok"
          /\ cmds[c].succ = 0
          /\ cmds'[c].succ = 1) =>
           /\ cmds[c].action = "water" =>
                 wateringActive' = ~cmds[c].before.watering
           /\ cmds[c].action = "light" =>
                 lightActive' = ~cmds[c].before.light
           /\ cmds[c].action = "nutrients" =>
                 /\ wateringActive' = cmds[c].before.watering
                 /\ lightActive' = cmds[c].before.light]_vars

\* C18: when the send-command request gets a negative reply, sendCommand
\* returns false, raises exactly one controlError, sends no further request
\* and leaves the watering and light flags unchanged.  The call that resumes
\* is the one whose command leaves the "sent" state in the step.
C18_RejectedCommand ==
    [][\A c \in CmdIds :
         (/\ lastOp' = "sendCommandResumes"
          /\ cmds[c].src = "client"
          /\ cmds[c].st = "sent"
          /\ cmds[c].reply = "notok"
          /\ cmds'[c].st # "sent") =>
           /\ ret' = "false"
           /\ cmds'[c].err = cmds[c].err + 1
           /\ cmds'[c].succ = cmds[c].succ
           /\ Len(cmds') = Len(cmds)
           /\ wateringActive' = wateringActive
           /\ lightActive' = lightActive]_vars

C18_Witness ==
    /\ lastOp = "sendCommandResumes"
    /\ ret = "false"
    /\ cmds # <<>>
    /\ cmds[1].src = "client"
    /\ cmds[1].reply = "notok"
    /\ cmds[1].st = "failed"
    /\ cmds[1].err = 1

\* C19: every time the transport confirms a connection, the first time or
\* after a reconnection, the attempt counter is reset to zero, a connection
\* notification with connected = true is raised, and a snapshot request for
\* both devices is sent to the backend.
C19_ConfirmedConnection ==
    [][lastOp' = "socket_connect" =>
         /\ reconnectAttempts' = 0
         /\ raised'.connection = "true"
         /\ raised'.requestInitialData = "sent"]_vars

\* C20: an attempt whose transport has neither confirmed nor reported an error
\* is covered by the connect watchdog, which will run failure handling for it,
\* also after another connect() or a disconnect() call: the armed watchdog is
\* the one of the socket connect() made last.
C20_WatchdogCoversAttempt ==
    \A s \in SockIds :
      (sockets[s].st = "opening" /\ sockets[s].errs = 0)
        => (connectionTimeout /\ s = Len(sockets))

\* C21: a 'disconnect' event with the server-initiated reason runs failure
\* handling (the attempt counter goes up by one and, while the new count is
\* below the maximum, one retry is scheduled); the client's own disconnect()
\* runs no failure handling: it does not raise the counter and schedules no
\* retry.
C21_ServerVersusClientDisconnect ==
    [][/\ lastOp' = "server_disconnect" =>
            /\ reconnectAttempts' = reconnectAttempts + 1
            /\ ~connected'
            /\ reconnectAttempts' < 5 =>
                  (timers' = timers + 1 /\ lastDelay' = ClaimedDelay[reconnectAttempts'])
            /\ reconnectAttempts' >= 5 => timers' = timers
       /\ lastOp' = "disconnect" =>
            /\ reconnectAttempts' <= reconnectAttempts
            /\ timers' = timers
            /\ lastDelay' = lastDelay]_vars

C21_Witness ==
    /\ lastOp = "server_disconnect"
    /\ reconnectAttempts = 2
    /\ timers >= 1
    /\ lastDelay = 7500

\* C22: once a reading of esp32_1 has been stored, getReservoirLevels() gives
\* its water level, and once a reading of esp32_2 has been stored, its
\* fertilizer level.
C22_ReservoirLevelsFollowReadings ==
    /\ currentSensorData["esp32_1"] # <<>> =>
          GetReservoirLevels.water = currentSensorData["esp32_1"][1].waterLevel
    /\ currentSensorData["esp32_2"] # <<>> =>
          GetReservoirLevels.fertilizer = currentSensorData["esp32_2"][1].fertilizerLevel

\* C23: each transport failure raises the attempt counter by exactly one;
\* while the new count is below the maximum it schedules exactly one retry and
\* raises no 'error' notification; the failure that brings the count to the
\* maximum schedules no retry and raises one 'error' notification whose
\* details carry the configured backend endpoint.
C23_FailureHandling ==
    [][lastOp' \in FailureOps =>
         /\ reconnectAttempts' = reconnectAttempts + 1
         /\ reconnectAttempts' < 5 =>
               /\ timers' = timers + 1
               /\ errorEvents' = errorEvents
               /\ raised'.error = <<>>
         /\ reconnectAttempts' = 5 =>
               /\ timers' = timers
               /\ errorEvents' = errorEvents + 1
               /\ raised'.error = <<[details |-> backendUrl]>>]_vars

C23_Witness ==
    /\ lastOp \in FailureOps
    /\ reconnectAttempts = 5
    /\ errorEvents = 1
    /\ lastDelay = 0
    /\ raised.error = <<[details |-> backendUrl]>>

\* C24: a processed reading whose nitrogen / phosphorus / potassium average is
\* below the nutrientLevel minimum of the active plant's profile appends
\* exactly one nutrient warning.
C24_NutrientAlertFollowsProfile ==
    (/\ processed # <<>>
     /\ AverageLess(processed[1].nitrogen, processed[1].phosphorus,
                    processed[1].potassium, plant.nutrientLevel.min))
      => CountOf("warning", "nutrients") = 1

\* C25: the combined reading handed to the hook takes every field unchanged
\* from the stored reading of its authoritative device: temperature, humidity
\* and waterLevel from esp32_1, fertilizerLevel from esp32_2, and moisture,
\* sunlight and N / P / K from the device of the active plant.
StoredField(deviceId, field) == currentSensorData[deviceId][1][field]

C25_CombinedKeepsProvenance ==
    processed # <<>> =>
      /\ currentSensorData["esp32_1"] # <<>> =>
            \A f \in {"temperature", "humidity", "waterLevel"} :
               processed[1][f] = StoredField("esp32_1", f)
      /\ currentSensorData["esp32_2"] # <<>> =>
            processed[1].fertilizerLevel = StoredField("esp32_2", "fertilizerLevel")
      /\ currentSensorData[DeviceOf(plantType)] # <<>> =>
            \A f \in {"moisture", "sunlight", "nitrogen", "phosphorus", "potassium"} :
               processed[1][f] = StoredField(DeviceOf(plantType), f)

\* C26: the backend's POST /send-command accepts every request sendCommand
\* makes: it queues the command as pending for its device and replies with
\* success (on which sendCommand returns true).
C26_BackendAcceptsClientTokens ==
    [][\A c \in CmdIds :
         (/\ lastOp' = "backendSendCommand"
          /\ cmds[c].src = "client"
          /\ cmds[c].reply = "none"
          /\ cmds'[c].reply # "none") =>
           /\ cmds'[c].reply = "ok"
           /\ cmds'[c].bst = "pending"]_vars

\* C27: the attempt counter never exceeds the maximum of 5, whatever the
\* interleaving of failure events on the sockets the manager has made.
C27_CounterWithinBudget == reconnectAttempts <= 5

\* C28: whenever the connected flag is true the socket the manager holds is
\* the connected one, so the flag and isConnected() agree: events of a socket
\* a later connect() has replaced do not change the connection state.
C28_FlagAgreesWithCurrentSocket == connected => IsConnected

\* C29: no two alerts held in the alert buffer have the same id, so that
\* markAlertAsRead(id) marks at most one alert.
C29_AlertIdsUnique ==
    \A i, j \in 1..Len(alertIds) : alertIds[i] = alertIds[j] => i = j

\* C30: the status calculatePlantHealth returns is the threshold category of
\* the score it returns with it (>= 90 excellent, >= 75 good, >= 60 fair,
\* >= 40 poor, otherwise critical) and the score lies within 0..100, also
\* when there is no sensor data or no plant profile.
ClaimedCategory(score) ==
    CASE score.num >= 90 * score.den -> "excellent"
      [] score.num < 90 * score.den /\ score.num >= 75 * score.den -> "good"
      [] score.num < 75 * score.den /\ score.num >= 60 * score.den -> "fair"
      [] score.num < 60 * score.den /\ score.num >= 40 * score.den -> "poor"
      [] OTHER -> "critical"

C30_StatusMatchesScore ==
    plantHealth # <<>> =>
      /\ plantHealth[1].status = ClaimedCategory(plantHealth[1].score)
      /\ plantHealth[1].score.num >= 0
      /\ plantHealth[1].score.num <= 100 * plantHealth[1].score.den

====
